---- MODULE Spec2Model ----
(***************************************************************************)
(* Model of the MOCU-OED reorganisation scripts:                           *)
(*   scripts/migrate_project.py     ensure_directories, copy_file,         *)
(*                                  add_file_header, migrate_files,        *)
(*                                  create_migration_report                *)
(*   scripts/validate_migration.py  ProjectValidator and main              *)
(*                                                                         *)
(* A project root is a filesystem: a function from relative paths (the     *)
(* sequence of their segments) to nodes.  A regular file holds text, a     *)
(* sequence of tokens; a token is one character, or a named run of         *)
(* characters without leading or trailing blanks.  Text is what open(..,   *)
(* 'r').read() returns, so line endings are the normalised ones.           *)
(***************************************************************************)
EXTENDS Integers, Sequences, FiniteSets, TLC

VARIABLES
    fs,             \* the project root: path -> node
    pc,             \* position of the running script
    call,           \* the last operation called, its arguments and result
    before,         \* the filesystem as it was before the last operation
    prev,           \* the operation called before the last one
    runs,           \* completed calls of ensure_directories
    idx,            \* migrate_files: index of the next FILE_MAPPING entry
    success_count,  \* migrate_files: success_count
    fail_count,     \* migrate_files: fail_count
    attempts,       \* migrate_files: the entries handed to copy_file, in order
    report,         \* create_migration_report: the rendered report
    yaml_installed, \* whether "import yaml" succeeds in this interpreter
    errors,         \* ProjectValidator.errors
    warnings,       \* ProjectValidator.warnings
    passed,         \* ProjectValidator.passed
    ran,            \* names of the checks validate_all has called, in order
    raisedIn,       \* names of the checks whose exception validate_all caught
    emitted,        \* number of findings appended during the run
    summary,        \* the three counts print_summary printed
    success,        \* value returned by validate_all
    exit_status     \* argument of sys.exit in main

vars == <<fs, pc, call, before, prev, runs, idx, success_count, fail_count,
          attempts, report, yaml_installed, errors, warnings, passed, ran,
          raisedIn, emitted, summary, success, exit_status>>

migVars == <<idx, success_count, fail_count, attempts, report>>
valVars == <<yaml_installed, errors, warnings, passed, ran, raisedIn, emitted,
             summary, success, exit_status>>

---------------------------------------------------------------------------
(* Bounds of the model. *)

\* longest text drawn for the destination handed to copy_file and add_file_header
MaxLen == 4
\* number of edits applied to the base root to draw an initial project root
MaxEdits == 2
\* calls of ensure_directories on one root
MaxRuns == 2

---------------------------------------------------------------------------
(* Text. *)

DQ == "\""
SQ == "'"
SP == " "
NL == "\n"

Whitespace == {" ", "\n", "\t", "\r"}

IsSpace(t) == t \in Whitespace

RECURSIVE LStrip(_)
LStrip(s) == IF s # <<>> /\ IsSpace(Head(s)) THEN LStrip(Tail(s)) ELSE s

RECURSIVE RStrip(_)
RStrip(s) ==
    IF s # <<>> /\ IsSpace(s[Len(s)]) THEN RStrip(SubSeq(s, 1, Len(s) - 1)) ELSE s

\* str.strip()
Strip(s) == RStrip(LStrip(s))

\* str.startswith(prefix)
StartsWith(s, prefix) ==
    /\ Len(s) >= Len(prefix)
    /\ SubSeq(s, 1, Len(prefix)) = prefix

\* needle in hay, for two strings
Contains(hay, needle) ==
    \E k \in 0..(Len(hay) - Len(needle)) :
        SubSeq(hay, k + 1, k + Len(needle)) = needle

\* s * n
Repeat(s, n) == [k \in 1..n |-> s]

\* texts of at most n tokens over the alphabet A
RECURSIVE Texts(_, _)
Texts(A, n) ==
    IF n = 0 THEN {<<>>}
    ELSE LET shorter == Texts(A, n - 1)
         IN  shorter \cup {Append(s, a) : s \in shorter, a \in A}

---------------------------------------------------------------------------
(* Paths. *)

\* the characters of a path segment
Chars(seg) ==
  CASE seg = "N5ForShare"                 -> <<"N", "5", "F", "o", "r", "S", "h", "a", "r", "e">>
    [] seg = "models"                     -> <<"m", "o", "d", "e", "l", "s">>
    [] seg = "MOCU.py"                    -> <<"M", "O", "C", "U", ".", "p", "y">>
    [] seg = "determineSyncN.py"          -> <<"d", "e", "t", "e", "r", "m", "i", "n", "e", "S", "y", "n", "c", "N", ".", "p", "y">>
    [] seg = "determineSyncTwo.py"        -> <<"d", "e", "t", "e", "r", "m", "i", "n", "e", "S", "y", "n", "c", "T", "w", "o", ".", "p", "y">>
    [] seg = "mocu_comp.py"               -> <<"m", "o", "c", "u", "_", "c", "o", "m", "p", ".", "p", "y">>
    [] seg = "MP_train.py"                -> <<"M", "P", "_", "t", "r", "a", "i", "n", ".", "p", "y">>
    [] seg = "findMPSequence.py"          -> <<"f", "i", "n", "d", "M", "P", "S", "e", "q", "u", "e", "n", "c", "e", ".", "p", "y">>
    [] seg = "findMOCUSequence.py"        -> <<"f", "i", "n", "d", "M", "O", "C", "U", "S", "e", "q", "u", "e", "n", "c", "e", ".", "p", "y">>
    [] seg = "findEntropySequence.py"     -> <<"f", "i", "n", "d", "E", "n", "t", "r", "o", "p", "y", "S", "e", "q", "u", "e", "n", "c", "e", ".", "p", "y">>
    [] seg = "findRandomSequence.py"      -> <<"f", "i", "n", "d", "R", "a", "n", "d", "o", "m", "S", "e", "q", "u", "e", "n", "c", "e", ".", "p", "y">>
    [] seg = "utils.py"                   -> <<"u", "t", "i", "l", "s", ".", "p", "y">>
    [] seg = "drawResults.py"             -> <<"d", "r", "a", "w", "R", "e", "s", "u", "l", "t", "s", ".", "p", "y">>
    [] seg = "runMainForPerformanceMeasure.py" -> <<"r", "u", "n", "M", "a", "i", "n", "F", "o", "r", "P", "e", "r", "f", "o", "r", "m", "a", "n", "c", "e", "M", "e", "a", "s", "u", "r", "e", ".", "p", "y">>
    [] seg = "src"                        -> <<"s", "r", "c">>
    [] seg = "core"                       -> <<"c", "o", "r", "e">>
    [] seg = "strategies"                 -> <<"s", "t", "r", "a", "t", "e", "g", "i", "e", "s">>
    [] seg = "utils"                      -> <<"u", "t", "i", "l", "s">>
    [] seg = "scripts"                    -> <<"s", "c", "r", "i", "p", "t", "s">>
    [] seg = "tests"                      -> <<"t", "e", "s", "t", "s">>
    [] seg = "logs"                       -> <<"l", "o", "g", "s">>
    [] seg = "configs"                    -> <<"c", "o", "n", "f", "i", "g", "s">>
    [] seg = "Dataset"                    -> <<"D", "a", "t", "a", "s", "e", "t">>
    [] seg = "Experiment"                 -> <<"E", "x", "p", "e", "r", "i", "m", "e", "n", "t">>
    [] seg = "results"                    -> <<"r", "e", "s", "u", "l", "t", "s">>
    [] seg = "mocu_cuda.py"               -> <<"m", "o", "c", "u", "_", "c", "u", "d", "a", ".", "p", "y">>
    [] seg = "sync_detection.py"          -> <<"s", "y", "n", "c", "_", "d", "e", "t", "e", "c", "t", "i", "o", "n", ".", "p", "y">>
    [] seg = "trainer.py"                 -> <<"t", "r", "a", "i", "n", "e", "r", ".", "p", "y">>
    [] seg = "mp_strategy.py"             -> <<"m", "p", "_", "s", "t", "r", "a", "t", "e", "g", "y", ".", "p", "y">>
    [] seg = "mocu_strategy.py"           -> <<"m", "o", "c", "u", "_", "s", "t", "r", "a", "t", "e", "g", "y", ".", "p", "y">>
    [] seg = "entropy_strategy.py"        -> <<"e", "n", "t", "r", "o", "p", "y", "_", "s", "t", "r", "a", "t", "e", "g", "y", ".", "p", "y">>
    [] seg = "random_strategy.py"         -> <<"r", "a", "n", "d", "o", "m", "_", "s", "t", "r", "a", "t", "e", "g", "y", ".", "p", "y">>
    [] seg = "visualization.py"           -> <<"v", "i", "s", "u", "a", "l", "i", "z", "a", "t", "i", "o", "n", ".", "p", "y">>
    [] seg = "4_visualize_results.py"     -> <<"4", "_", "v", "i", "s", "u", "a", "l", "i", "z", "e", "_", "r", "e", "s", "u", "l", "t", "s", ".", "p", "y">>
    [] seg = "3_run_experiment.py"        -> <<"3", "_", "r", "u", "n", "_", "e", "x", "p", "e", "r", "i", "m", "e", "n", "t", ".", "p", "y">>
    [] seg = "__init__.py"                -> <<"_", "_", "i", "n", "i", "t", "_", "_", ".", "p", "y">>

Parent(p) == SubSeq(p, 1, Len(p) - 1)

\* Path.name
Name(p) == p[Len(p)]

\* the relative path as the string the scripts spell it
RECURSIVE PathText(_)
PathText(p) ==
    IF p = <<>> THEN <<>>
    ELSE IF Len(p) = 1 THEN Chars(p[1])
    ELSE PathText(Parent(p)) \o <<"/">> \o Chars(Name(p))

Ancestors(p) == {SubSeq(p, 1, k) : k \in 1..(Len(p) - 1)}

---------------------------------------------------------------------------
(* Filesystem. *)

Absent == [kind |-> "none", content |-> <<>>]
Dir == [kind |-> "dir", content |-> <<>>]
File(text) == [kind |-> "file", content |-> text]

Root == <<>>

Kind(f, p) == IF p = Root THEN "dir" ELSE f[p].kind

\* Path.exists()
Exists(f, p) == Kind(f, p) # "none"

\* Path.is_dir()
IsDir(f, p) == Kind(f, p) = "dir"

\* Path.is_file()
IsFile(f, p) == Kind(f, p) = "file"

Below(p, q) == Len(q) > Len(p) /\ SubSeq(q, 1, Len(p)) = p

\* Path.mkdir(parents=True, exist_ok=True)
RECURSIVE Mkdir(_, _)
Mkdir(f, p) ==
    IF IsDir(f, p) THEN [fs |-> f, raised |-> FALSE]
    ELSE IF IsFile(f, p) THEN [fs |-> f, raised |-> TRUE]
    ELSE IF IsFile(f, Parent(p)) THEN [fs |-> f, raised |-> TRUE]
    ELSE IF IsDir(f, Parent(p)) THEN [fs |-> [f EXCEPT ![p] = Dir], raised |-> FALSE]
    ELSE LET up == Mkdir(f, Parent(p))
         IN  IF up.raised THEN up
             ELSE [fs |-> [up.fs EXCEPT ![p] = Dir], raised |-> FALSE]

\* open(p, 'w').write(text), Path.write_text(text), shutil.copy2 onto a file path
WriteFile(f, p, text) ==
    IF IsDir(f, p) \/ ~IsDir(f, Parent(p)) THEN [fs |-> f, raised |-> TRUE]
    ELSE [fs |-> [f EXCEPT ![p] = File(text)], raised |-> FALSE]

---------------------------------------------------------------------------
(* migrate_project.py *)

FILE_MAPPING == <<
    [src |-> <<"N5ForShare", "MOCU.py">>,
     dst |-> <<"src", "core", "mocu_cuda.py">>, needs_improvement |-> TRUE],
    [src |-> <<"N5ForShare", "determineSyncN.py">>,
     dst |-> <<"src", "core", "sync_detection.py">>, needs_improvement |-> TRUE],
    [src |-> <<"N5ForShare", "determineSyncTwo.py">>,
     dst |-> <<"src", "core", "sync_detection.py">>, needs_improvement |-> FALSE],
    [src |-> <<"N5ForShare", "mocu_comp.py">>,
     dst |-> <<"src", "core", "sync_detection.py">>, needs_improvement |-> FALSE],
    [src |-> <<"models", "MP_train.py">>,
     dst |-> <<"src", "models", "trainer.py">>, needs_improvement |-> TRUE],
    [src |-> <<"N5ForShare", "findMPSequence.py">>,
     dst |-> <<"src", "strategies", "mp_strategy.py">>, needs_improvement |-> TRUE],
    [src |-> <<"N5ForShare", "findMOCUSequence.py">>,
     dst |-> <<"src", "strategies", "mocu_strategy.py">>, needs_improvement |-> TRUE],
    [src |-> <<"N5ForShare", "findEntropySequence.py">>,
     dst |-> <<"src", "strategies", "entropy_strategy.py">>, needs_improvement |-> TRUE],
    [src |-> <<"N5ForShare", "findRandomSequence.py">>,
     dst |-> <<"src", "strategies", "random_strategy.py">>, needs_improvement |-> TRUE],
    [src |-> <<"models", "utils.py">>,
     dst |-> <<"src", "utils", "visualization.py">>, needs_improvement |-> TRUE],
    [src |-> <<"N5ForShare", "drawResults.py">>,
     dst |-> <<"scripts", "4_visualize_results.py">>, needs_improvement |-> TRUE],
    [src |-> <<"N5ForShare", "runMainForPerformanceMeasure.py">>,
     dst |-> <<"scripts", "3_run_experiment.py">>, needs_improvement |-> TRUE] >>

\* the entries the mapping comments as "# Append" (lines 22 and 23)
AppendCommented == {3, 4}

\* dirs of ensure_directories
EnsureDirs == <<
    <<"src", "core">>, <<"src", "models">>, <<"src", "strategies">>,
    <<"src", "utils">>, <<"scripts">>, <<"tests">>, <<"logs">>, <<"configs">>,
    <<"Dataset">>, <<"Experiment">>, <<"results">> >>

\* d.startswith("src/")
IsPackageDir(d) == StartsWith(PathText(d), <<"s", "r", "c", "/">>)

InitFile(d) == d \o <<"__init__.py">>

\* '"""Package initialization."""\n'
PackagePlaceholder == <<DQ, DQ, DQ, "Package initialization.", DQ, DQ, DQ, NL>>

MarkerAlwaysWritten(f, init_file) == TRUE

\* if not init_file.exists()
MarkerNeeded(f, init_file) == ~Exists(f, init_file)

\* one iteration of the loop of ensure_directories
EnsureOne(f, d) ==
    LET mk == Mkdir(f, d)
    IN  IF mk.raised THEN mk
        ELSE IF IsPackageDir(d) /\ MarkerNeeded(mk.fs, InitFile(d))
             THEN WriteFile(mk.fs, InitFile(d), PackagePlaceholder)
             ELSE mk

RECURSIVE EnsureFrom(_, _)
EnsureFrom(f, k) ==
    IF k > Len(EnsureDirs) THEN [fs |-> f, raised |-> FALSE]
    ELSE LET r == EnsureOne(f, EnsureDirs[k])
         IN  IF r.raised THEN r ELSE EnsureFrom(r.fs, k + 1)

ensure_directories(f) == EnsureFrom(f, 1)

\* '# ' + '='*60 + '\n'
RuleLine == <<"#", " ">> \o Repeat("=", 60) \o <<NL>>

\* the three writes that precede the appended content
SeparatorBlock(name) ==
    <<NL, NL>> \o RuleLine
    \o <<"#", " ", "Appended from", " ">> \o Chars(name) \o <<NL>>
    \o RuleLine \o <<NL>>

TruncatingAppend(old, name, content) == SeparatorBlock(name) \o content

\* open(dst, 'a') followed by the four writes
AppendedText(old, name, content) == old \o SeparatorBlock(name) \o content

\* where shutil.copy2(src, dst) writes
CopyTarget(f, src, dst) == IF IsDir(f, dst) THEN dst \o <<Name(src)>> ELSE dst

copy_file(f, src, dst, append) ==
    IF ~Exists(f, src) THEN [fs |-> f, ret |-> FALSE, raised |-> FALSE]
    ELSE
      LET mk == Mkdir(f, Parent(dst))
      IN  IF mk.raised \/ ~IsFile(f, src)
          THEN [fs |-> mk.fs, ret |-> FALSE, raised |-> TRUE]
          ELSE IF append /\ Exists(mk.fs, dst)
          THEN IF ~IsFile(mk.fs, dst)
               THEN [fs |-> mk.fs, ret |-> FALSE, raised |-> TRUE]
               ELSE [fs |-> [mk.fs EXCEPT ![dst] =
                                File(AppendedText(mk.fs[dst].content, Name(src),
                                                  f[src].content))],
                     ret |-> TRUE, raised |-> FALSE]
          ELSE LET w == WriteFile(mk.fs, CopyTarget(mk.fs, src, dst), f[src].content)
               IN  [fs |-> w.fs, ret |-> ~w.raised, raised |-> w.raised]

ProjectSentence1 ==
    "This module is part of the MOCU-OED project for optimal experimental design"
ProjectSentence2 == "in coupled oscillator systems."

\* header of add_file_header
HeaderText(description) ==
    <<DQ, DQ, DQ, NL>> \o description
    \o <<NL, NL, ProjectSentence1, NL, ProjectSentence2, NL, DQ, DQ, DQ, NL, NL>>

UnstrippedDocstring(content) ==
    \/ StartsWith(content, <<DQ, DQ, DQ>>)
    \/ StartsWith(content, <<SQ, SQ, SQ>>)

\* content.strip().startswith('"""') or content.strip().startswith("'''")
HasDocstring(content) ==
    \/ StartsWith(Strip(content), <<DQ, DQ, DQ>>)
    \/ StartsWith(Strip(content), <<SQ, SQ, SQ>>)

add_file_header(f, file_path, description) ==
    IF ~IsFile(f, file_path) THEN [fs |-> f, raised |-> TRUE]
    ELSE IF ~HasDocstring(f[file_path].content)
         THEN WriteFile(f, file_path, HeaderText(description) \o f[file_path].content)
         ELSE [fs |-> f, raised |-> FALSE]

\* append = "Append" in dst_rel
AppendRequested(dst_rel) == Contains(PathText(dst_rel), <<"A", "p", "p", "e", "n", "d">>)

file_descriptions == <<
    [file |-> <<"src", "core", "mocu_cuda.py">>,
     description |-> <<"CUDA-accelerated MOCU computation">>],
    [file |-> <<"src", "core", "sync_detection.py">>,
     description |-> <<"Synchronization detection for oscillator systems">>],
    [file |-> <<"src", "models", "trainer.py">>,
     description |-> <<"Neural network training utilities">>],
    [file |-> <<"src", "strategies", "mp_strategy.py">>,
     description |-> <<"Message passing-based OED strategy">>],
    [file |-> <<"src", "strategies", "mocu_strategy.py">>,
     description |-> <<"ODE-based MOCU strategy">>],
    [file |-> <<"src", "strategies", "entropy_strategy.py">>,
     description |-> <<"Entropy-based OED strategy">>],
    [file |-> <<"src", "strategies", "random_strategy.py">>,
     description |-> <<"Random baseline strategy">>] >>

\* the loop over file_descriptions of migrate_files
RECURSIVE HeadersFrom(_, _)
HeadersFrom(f, k) ==
    IF k > Len(file_descriptions) THEN [fs |-> f, raised |-> FALSE]
    ELSE IF ~Exists(f, file_descriptions[k].file) THEN HeadersFrom(f, k + 1)
    ELSE LET r == add_file_header(f, file_descriptions[k].file,
                                  file_descriptions[k].description)
         IN  IF r.raised THEN r ELSE HeadersFrom(r.fs, k + 1)

ReportPath == <<"MIGRATION_REPORT.md">>

\* the report of create_migration_report
ReportOf(f, succeeded, failed) ==
    [success |-> succeeded,
     fail |-> failed,
     status |-> IF failed = 0 THEN "Complete" ELSE "Incomplete",
     rows |-> [k \in 1..Len(FILE_MAPPING) |->
                 [src |-> FILE_MAPPING[k].src, dst |-> FILE_MAPPING[k].dst,
                  exists |-> Exists(f, FILE_MAPPING[k].dst)]]]

NoReport == [success |-> 0, fail |-> 0, status |-> "none", rows |-> <<>>]
NoCall == [op |-> "none"]

---------------------------------------------------------------------------
(* validate_migration.py *)

\* a finding: the fixed part of its message, and the path, module, section or
\* exception the message names
Finding(label, about) == [label |-> label, about |-> about]

\* the three lists of a ProjectValidator, with the number of appends made
NoFindings == [passed |-> <<>>, warnings |-> <<>>, errors |-> <<>>, n |-> 0]

Pass(acc, label, about) ==
    [acc EXCEPT !.passed = Append(@, Finding(label, about)), !.n = @ + 1]
Warn(acc, label, about) ==
    [acc EXCEPT !.warnings = Append(@, Finding(label, about)), !.n = @ + 1]
Err(acc, label, about) ==
    [acc EXCEPT !.errors = Append(@, Finding(label, about)), !.n = @ + 1]

\* what a check hands back to validate_all: the lists, and the exception it let out
Returned(acc) == [acc |-> acc, exc |-> "none"]
Raised(acc, exc) == [acc |-> acc, exc |-> exc]

required_dirs == <<
    <<"src">>, <<"src", "core">>, <<"src", "models">>, <<"src", "strategies">>,
    <<"src", "utils">>, <<"scripts">>, <<"configs">>, <<"tests">> >>

RECURSIVE DirsFrom(_, _, _)
DirsFrom(f, acc, k) ==
    IF k > Len(required_dirs) THEN acc
    ELSE LET d == required_dirs[k]
         IN  DirsFrom(f,
                      IF Exists(f, d) /\ IsDir(f, d)
                      THEN Pass(acc, "Directory exists", d)
                      ELSE Err(acc, "Missing directory", d),
                      k + 1)

check_directory_structure(f, acc) == Returned(DirsFrom(f, acc, 1))

ConfigPath == <<"configs", "default_config.yaml">>

required_files == <<
    <<"README.md">>, <<"requirements.txt">>, <<"setup.py">>, ConfigPath,
    <<"src", "__init__.py">>, <<"src", "core", "__init__.py">>,
    <<"src", "models", "__init__.py">>, <<"src", "strategies", "__init__.py">>,
    <<"src", "utils", "__init__.py">> >>

RECURSIVE FilesFrom(_, _, _)
FilesFrom(f, acc, k) ==
    IF k > Len(required_files) THEN acc
    ELSE LET p == required_files[k]
         IN  FilesFrom(f,
                       IF Exists(f, p) /\ IsFile(f, p)
                       THEN Pass(acc, "File exists", p)
                       ELSE Err(acc, "Missing file", p),
                       k + 1)

check_required_files(f, acc) == Returned(FilesFrom(f, acc, 1))

\* import_tests: the dotted module names, as the files that define them
import_tests == <<
    [module |-> <<"src", "utils", "config">>,
     file |-> <<"src", "utils", "config.py">>],
    [module |-> <<"src", "utils", "data_utils">>,
     file |-> <<"src", "utils", "data_utils.py">>],
    [module |-> <<"src", "utils", "logging_utils">>,
     file |-> <<"src", "utils", "logging_utils.py">>],
    [module |-> <<"src", "models", "message_passing">>,
     file |-> <<"src", "models", "message_passing.py">>] >>

\* a statement that raises when the package is imported
RaiseStmt == "raise RuntimeError"

\* importing the package at directory q succeeds
PackageLoads(f, q) ==
    /\ IsDir(f, q)
    /\ IsFile(f, InitFile(q)) => RaiseStmt \notin {f[InitFile(q)].content[k] :
                                                   k \in 1..Len(f[InitFile(q)].content)}

\* importlib.util.find_spec(module_name): the parent packages are imported,
\* then the module is looked up without being loaded
FindSpec(f, t) ==
    IF \E q \in Ancestors(t.module) : ~PackageLoads(f, q) THEN "raised"
    ELSE IF IsFile(f, t.file) THEN "spec"
    ELSE "None"

RECURSIVE ImportsFrom(_, _, _)
ImportsFrom(f, acc, k) ==
    IF k > Len(import_tests) THEN acc
    ELSE LET t == import_tests[k]
             found == FindSpec(f, t)
         IN  ImportsFrom(f,
                         IF found = "spec" THEN Pass(acc, "Import works", t.module)
                         ELSE IF found = "None" THEN Warn(acc, "Module not found", t.module)
                         ELSE Err(acc, "Import failed", t.module),
                         k + 1)

check_imports(f, acc) == Returned(ImportsFrom(f, acc, 1))

required_sections == <<"system", "integration", "training", "model", "oed", "paths">>

\* The lines a configuration text is made of.
KeyLines == {"system: {}", "integration: {}", "training: {}", "model: {}",
             "oed: {}", "paths: {}", "extra: {}"}
ItemLines == {"- system", "- extra"}
WordLines == {"system", "extra"}
IntLines == {"42"}
BrokenLines == {"{"}

\* the key, item or word a line holds
Datum(line) ==
    CASE line \in {"system: {}", "- system", "system"} -> "system"
      [] line = "integration: {}" -> "integration"
      [] line = "training: {}" -> "training"
      [] line = "model: {}" -> "model"
      [] line = "oed: {}" -> "oed"
      [] line = "paths: {}" -> "paths"
      [] line \in {"extra: {}", "- extra", "extra"} -> "extra"

Lines(text) == {text[k] : k \in 1..Len(text)}

\* yaml.safe_load(f): the document, or the YAMLError it raises
SafeLoad(text) ==
    IF text = <<>> THEN [type |-> "None", items |-> {}]
    ELSE IF Lines(text) \subseteq KeyLines
    THEN [type |-> "dict", items |-> {Datum(l) : l \in Lines(text)}]
    ELSE IF Lines(text) \subseteq ItemLines
    THEN [type |-> "list", items |-> {Datum(l) : l \in Lines(text)}]
    ELSE IF Lines(text) \subseteq WordLines
    THEN [type |-> "str", items |-> {Datum(l) : l \in Lines(text)}]
    ELSE IF Len(text) = 1 /\ text[1] \in IntLines
    THEN [type |-> "int", items |-> {}]
    ELSE [type |-> "YAMLError", items |-> {}]

\* section in config, where it is defined: keys of a dict, elements of a list,
\* substrings of a str
HasSection(config, section) == section \in config.items

\* "section in config" raises TypeError
NotAContainer(config) == config.type \in {"None", "int"}

RECURSIVE SectionsFrom(_, _, _)
SectionsFrom(config, acc, k) ==
    IF k > Len(required_sections) THEN acc
    ELSE LET section == required_sections[k]
         IN  SectionsFrom(config,
                          IF HasSection(config, section)
                          THEN Pass(acc, "Config section exists", <<section>>)
                          ELSE Warn(acc, "Config section missing", <<section>>),
                          k + 1)

check_configuration(f, yaml, acc) ==
    IF ~Exists(f, ConfigPath)
    THEN Returned(Err(acc, "Configuration file not found", <<>>))
    ELSE IF ~yaml
    \* ImportError inside the try; naming yaml.YAMLError in the except clause
    \* then raises UnboundLocalError, which leaves the check
    THEN Raised(acc, "UnboundLocalError")
    ELSE IF ~IsFile(f, ConfigPath)
    THEN Returned(Err(acc, "Config check failed", <<"IsADirectoryError">>))
    ELSE LET config == SafeLoad(f[ConfigPath].content)
         IN  IF config.type = "YAMLError"
             THEN Returned(Err(acc, "Invalid YAML", <<"YAMLError">>))
             ELSE IF NotAContainer(config)
             THEN Returned(Err(acc, "Config check failed", <<"TypeError">>))
             ELSE Returned(SectionsFrom(config, acc, 1))

doc_files == << <<"README.md">>, <<"REORGANIZATION_GUIDE.md">> >>

\* a run of 100 characters that are not blank
Block100 == "<100 characters>"

\* len(s), for the texts documentation files hold
RECURSIVE CharLen(_)
CharLen(s) ==
    IF s = <<>> THEN 0
    ELSE (IF Head(s) = Block100 THEN 100 ELSE 1) + CharLen(Tail(s))

\* the length a documentation file must exceed
MinDocChars == 100

RECURSIVE DocsFrom(_, _, _)
DocsFrom(f, acc, k) ==
    IF k > Len(doc_files) THEN Returned(acc)
    ELSE LET p == doc_files[k]
         IN  IF ~Exists(f, p)
             THEN DocsFrom(f, Warn(acc, "Documentation missing", p), k + 1)
             ELSE IF ~IsFile(f, p)
             THEN Raised(acc, "IsADirectoryError")
             ELSE IF CharLen(Strip(f[p].content)) > MinDocChars
             THEN DocsFrom(f, Pass(acc, "Documentation exists", p), k + 1)
             ELSE DocsFrom(f, Warn(acc, "Documentation too short", p), k + 1)

check_documentation(f, acc) == DocsFrom(f, acc, 1)

\* checks of validate_all, in order
checks == <<"Directory Structure", "Required Files", "Python Imports",
            "Configuration", "Documentation">>

SwallowedException(acc, check_name, exc) == acc

\* except Exception as e: self.errors.append(f"{check_name}: {str(e)}")
Caught(acc, check_name, exc) == Err(acc, check_name, <<exc>>)

\* one iteration of the loop of validate_all
RunCheck(check_name, r) ==
    IF r.exc = "none" THEN r.acc ELSE Caught(r.acc, check_name, r.exc)

PassedWithoutWarnings(errs, warns) == Len(errs) = 0 /\ Len(warns) = 0

\* return len(self.errors) == 0
ValidateResult(errs, warns) == Len(errs) = 0

ExitAlwaysZero(ok) == 0

\* sys.exit(0 if success else 1)
ExitCode(ok) == IF ok THEN 0 ELSE 1

---------------------------------------------------------------------------
(* Initial project roots. *)

Range(s) == {s[k] : k \in 1..Len(s)}

\* set path p of root f to node, keeping the tree a tree
Plant(f, p, node) ==
    [q \in DOMAIN f |->
        IF q = p THEN node
        ELSE IF q \in Ancestors(p) /\ node.kind # "none" THEN Dir
        ELSE IF Below(p, q) /\ node.kind # "dir" THEN Absent
        ELSE f[q]]

Edit(p, node) == [path |-> p, node |-> node, yaml |-> TRUE]
NoEdit == [path |-> Root, node |-> Dir, yaml |-> TRUE]
NoYaml == [path |-> Root, node |-> Dir, yaml |-> FALSE]

ApplyEdit(f, e) == IF e.path = Root THEN f ELSE Plant(f, e.path, e.node)

RECURSIVE ApplyEdits(_, _)
ApplyEdits(f, es) ==
    IF es = <<>> THEN f ELSE ApplyEdits(ApplyEdit(f, Head(es)), Tail(es))

EditLists(E) == [1..MaxEdits -> E \cup {NoEdit}]

ModuleFiles == {t.file : t \in Range(import_tests)}
MarkerFiles == {InitFile(d) : d \in {<<"src">>} \cup {d \in Range(EnsureDirs) : d[1] = "src"}}

ValPaths ==
    Range(required_dirs) \cup Range(EnsureDirs) \cup Range(required_files)
    \cup MarkerFiles \cup ModuleFiles \cup Range(doc_files)

FullConfig == <<"system: {}", "integration: {}", "training: {}", "model: {}",
                "oed: {}", "paths: {}">>

LongDoc == <<Block100, "a">>

\* a root on which every check of the validator passes
ConformingRoot ==
    [p \in ValPaths |->
        IF p \in Range(required_dirs) THEN Dir
        ELSE IF p = ConfigPath THEN File(FullConfig)
        ELSE IF p \in Range(doc_files) THEN File(LongDoc)
        ELSE IF p \in MarkerFiles THEN File(PackagePlaceholder)
        ELSE IF p \in Range(required_files) \cup ModuleFiles THEN File(<<"a">>)
        ELSE Absent]

EmptyRoot(paths) == [p \in paths |-> Absent]

ConfigTexts == {
    <<>>, <<"{">>, <<"42">>, <<"system">>, <<"- system", "- extra">>,
    <<"system: {}", "extra: {}">>, <<"system: {}", "- extra">> }

ValEdits ==
    {Edit(d, Absent) : d \in Range(required_dirs)}
    \cup {Edit(p, Absent) : p \in Range(required_files) \cup ModuleFiles \cup Range(doc_files)}
    \cup {Edit(ConfigPath, File(t)) : t \in ConfigTexts}
    \cup {Edit(ConfigPath, Dir), Edit(ConfigPath, File(FullConfig))}
    \cup {Edit(<<"src", "core", "__init__.py">>, Dir),
          Edit(<<"src", "utils", "__init__.py">>, File(<<RaiseStmt>>)),
          Edit(<<"src", "utils", "config.py">>, File(<<"a">>)),
          Edit(<<"tests">>, File(<<"a">>))}
    \cup {Edit(<<"README.md">>, File(<<Block100>>)),
          Edit(<<"README.md">>, File(<<SP, Block100, "a", NL>>)),
          Edit(<<"README.md">>, Dir),
          Edit(<<"REORGANIZATION_GUIDE.md">>, File(<<Block100, SP, NL>>)),
          Edit(<<"REORGANIZATION_GUIDE.md">>, Dir)}
    \cup {NoYaml}

ProvisionEdits ==
    {Edit(d, Dir) : d \in {<<"src">>, <<"src", "core">>, <<"logs">>}}
    \cup {Edit(d, File(<<"a">>)) : d \in {<<"src">>, <<"src", "utils">>, <<"tests">>}}
    \cup {Edit(d, Absent) : d \in {<<"src">>, <<"src", "models">>, <<"configs">>}}
    \cup {Edit(<<"src", "__init__.py">>, File(PackagePlaceholder)),
          Edit(<<"src", "models", "__init__.py">>, File(<<"import torch">>)),
          Edit(<<"src", "models", "__init__.py">>, Absent),
          Edit(<<"src", "core", "__init__.py">>, File(<<>>)),
          Edit(<<"src", "strategies", "__init__.py">>, Dir)}

SourceFiles == {FILE_MAPPING[k].src : k \in 1..Len(FILE_MAPPING)}
DestFiles == {FILE_MAPPING[k].dst : k \in 1..Len(FILE_MAPPING)}

MigPaths ==
    SourceFiles \cup DestFiles \cup {<<"N5ForShare">>, <<"models">>, <<"src">>}
    \cup Range(EnsureDirs) \cup MarkerFiles \cup {ReportPath}

\* the text of a source file
Body(p) == <<"text of", Name(p), NL>>
DocBody(p) == <<NL, SQ, SQ, SQ, "doc", SQ, SQ, SQ, NL>> \o Body(p)

\* the project before migration: every source of the mapping is there
OldProject ==
    [p \in MigPaths |->
        IF p \in SourceFiles THEN File(Body(p))
        ELSE IF p \in {<<"N5ForShare">>, <<"models">>} THEN Dir
        ELSE Absent]

MigEdits ==
    {Edit(p, Absent) : p \in SourceFiles}
    \cup {Edit(FILE_MAPPING[k].src, File(DocBody(FILE_MAPPING[k].src))) : k \in {1, 2, 4}}
    \cup {Edit(FILE_MAPPING[k].dst, File(<<"old text", NL>>)) : k \in {1, 2, 5}}
    \cup {Edit(<<"src", "core", "__init__.py">>, File(<<"import torch">>)),
          Edit(<<"scripts">>, File(<<"a">>))}

UnitSrc == <<"N5ForShare", "determineSyncTwo.py">>
UnitDst == <<"src", "core", "sync_detection.py">>
UnitPaths == {UnitSrc, UnitDst} \cup Ancestors(UnitSrc) \cup Ancestors(UnitDst)

Alphabet == {DQ, SQ, SP, "a"}
UnitSrcTexts == {<<>>, <<"b", NL>>, <<DQ, DQ, DQ, "b">>}
Descriptions == {<<>>, <<"Synchronization detection for oscillator systems">>}

Idle ==
    /\ call = NoCall
    /\ prev = NoCall
    /\ before = fs
    /\ runs = 0
    /\ idx = 1
    /\ success_count = 0
    /\ fail_count = 0
    /\ attempts = <<>>
    /\ report = NoReport
    /\ errors = <<>>
    /\ warnings = <<>>
    /\ passed = <<>>
    /\ ran = <<>>
    /\ raisedIn = <<>>
    /\ emitted = 0
    /\ summary = [passed |-> 0, warnings |-> 0, errors |-> 0]
    /\ success = FALSE
    /\ exit_status = -1

\* a project root about to be validated
InitValidate ==
    /\ \E base \in {ConformingRoot, EmptyRoot(ValPaths)} : \E es \in EditLists(ValEdits) :
          /\ fs = ApplyEdits(base, es)
          /\ yaml_installed = (\A k \in 1..MaxEdits : es[k].yaml)
    /\ pc = "main"
    /\ Idle

\* a project root about to be provisioned
InitProvision ==
    /\ \E base \in {ConformingRoot, EmptyRoot(ValPaths)} :
       \E es \in EditLists(ProvisionEdits) :
          fs = ApplyEdits(base, es)
    /\ yaml_installed = TRUE
    /\ pc = "provision"
    /\ Idle

\* a project about to be migrated
InitMigrate ==
    /\ \E es \in EditLists(MigEdits) : fs = ApplyEdits(OldProject, es)
    /\ yaml_installed = TRUE
    /\ pc = "migrate_files"
    /\ Idle

\* a source and a destination about to be handed to copy_file and add_file_header
InitUnit ==
    /\ \E s \in {Absent} \cup {File(t) : t \in UnitSrcTexts} :
       \E d \in {Absent} \cup {File(t) : t \in Texts(Alphabet, MaxLen)} :
          fs = Plant(Plant(EmptyRoot(UnitPaths), UnitSrc, s), UnitDst, d)
    /\ yaml_installed = TRUE
    /\ pc = "unit"
    /\ Idle

---------------------------------------------------------------------------
(* Operations called on their own. *)

AfterCall(p) == IF p = "unit" THEN "called once" ELSE "called twice"

\* copy_file(src, dst, append)
CallCopyFile ==
    /\ pc \in {"unit", "called once"}
    /\ \E append \in BOOLEAN :
         LET r == copy_file(fs, UnitSrc, UnitDst, append)
         IN  /\ fs' = r.fs
             /\ call' = [op |-> "copy_file", src |-> UnitSrc, dst |-> UnitDst,
                         append |-> append, ret |-> r.ret, raised |-> r.raised]
    /\ before' = fs
    /\ prev' = call
    /\ pc' = AfterCall(pc)
    /\ UNCHANGED <<runs, migVars, valVars>>

\* add_file_header(file_path, description)
CallAddFileHeader ==
    /\ pc \in {"unit", "called once"}
    /\ \E description \in Descriptions :
         LET r == add_file_header(fs, UnitDst, description)
         IN  /\ fs' = r.fs
             /\ call' = [op |-> "add_file_header", file_path |-> UnitDst,
                         description |-> description, raised |-> r.raised]
    /\ before' = fs
    /\ prev' = call
    /\ pc' = AfterCall(pc)
    /\ UNCHANGED <<runs, migVars, valVars>>

\* ensure_directories(base_path)
EnsureDirectories ==
    /\ pc = "provision"
    /\ runs < MaxRuns
    /\ LET r == ensure_directories(fs)
       IN  /\ fs' = r.fs
           /\ call' = [op |-> "ensure_directories", raised |-> r.raised]
           /\ pc' = IF r.raised THEN "crashed" ELSE pc
           /\ runs' = IF r.raised THEN runs ELSE runs + 1
    /\ before' = fs
    /\ prev' = call
    /\ UNCHANGED <<migVars, valVars>>

\* the validator is started on the provisioned root
Provisioned ==
    /\ pc = "provision"
    /\ runs > 0
    /\ pc' = "main"
    /\ UNCHANGED <<fs, call, before, prev, runs, migVars, valVars>>

---------------------------------------------------------------------------
(* migrate_files *)

\* step 1: ensure_directories(new_base)
MigrateEnsure ==
    /\ pc = "migrate_files"
    /\ LET r == ensure_directories(fs)
       IN  /\ fs' = r.fs
           /\ call' = [op |-> "ensure_directories", raised |-> r.raised]
           /\ pc' = IF r.raised THEN "crashed" ELSE "copy"
           /\ runs' = IF r.raised THEN runs ELSE runs + 1
    /\ before' = fs
    /\ prev' = call
    /\ UNCHANGED <<migVars, valVars>>

\* step 2: one iteration of the loop over FILE_MAPPING
MigrateCopy ==
    /\ pc = "copy"
    /\ idx <= Len(FILE_MAPPING)
    /\ LET entry == FILE_MAPPING[idx]
           append == AppendRequested(entry.dst)
           r == copy_file(fs, entry.src, entry.dst, append)
       IN  /\ fs' = r.fs
           /\ call' = [op |-> "copy_file", src |-> entry.src, dst |-> entry.dst,
                       append |-> append, ret |-> r.ret, raised |-> r.raised]
           /\ attempts' = Append(attempts, idx)
           /\ success_count' = IF ~r.raised /\ r.ret THEN success_count + 1
                               ELSE success_count
           /\ fail_count' = IF ~r.raised /\ ~r.ret THEN fail_count + 1 ELSE fail_count
           /\ pc' = IF r.raised THEN "crashed"
                    ELSE IF idx = Len(FILE_MAPPING) THEN "headers" ELSE pc
           /\ idx' = IF r.raised THEN idx ELSE idx + 1
    /\ before' = fs
    /\ prev' = call
    /\ UNCHANGED <<runs, report, valVars>>

\* step 3: the loop over file_descriptions
MigrateHeaders ==
    /\ pc = "headers"
    /\ LET r == HeadersFrom(fs, 1)
       IN  /\ fs' = r.fs
           /\ call' = [op |-> "add_file_header", raised |-> r.raised]
           /\ pc' = IF r.raised THEN "crashed" ELSE "report"
    /\ before' = fs
    /\ prev' = call
    /\ UNCHANGED <<runs, migVars, valVars>>

\* step 4: create_migration_report(new_base, success_count, fail_count)
MigrateReport ==
    /\ pc = "report"
    /\ report' = ReportOf(fs, success_count, fail_count)
    /\ LET w == WriteFile(fs, ReportPath, <<"# Migration Report", NL>>)
       IN  /\ fs' = w.fs
           /\ call' = [op |-> "create_migration_report", raised |-> w.raised]
           /\ pc' = IF w.raised THEN "crashed" ELSE "migrated"
    /\ before' = fs
    /\ prev' = call
    /\ UNCHANGED <<runs, idx, success_count, fail_count, attempts, valVars>>

---------------------------------------------------------------------------
(* main and validate_all *)

\* validator = ProjectValidator(project_root)
MainStart ==
    /\ pc = "main"
    /\ errors' = <<>>
    /\ warnings' = <<>>
    /\ passed' = <<>>
    /\ pc' = "validate_all"
    /\ UNCHANGED <<fs, call, before, prev, runs, migVars, yaml_installed, ran,
                   raisedIn, emitted, summary, success, exit_status>>

\* self.passed, self.warnings and self.errors
Buckets == [passed |-> passed, warnings |-> warnings, errors |-> errors, n |-> emitted]

\* the iteration of the loop of validate_all that calls the check check_name,
\* r being what the check hands back
Iteration(check_name, r) ==
    /\ pc = "validate_all"
    /\ Len(ran) < Len(checks)
    /\ checks[Len(ran) + 1] = check_name
    /\ LET acc == RunCheck(check_name, r)
       IN  /\ passed' = acc.passed
           /\ warnings' = acc.warnings
           /\ errors' = acc.errors
           /\ emitted' = acc.n
           /\ raisedIn' = IF r.exc = "none" THEN raisedIn ELSE Append(raisedIn, check_name)
           /\ call' = [op |-> check_name, exc |-> r.exc, kept |-> r.acc,
                       had |-> [passed |-> passed, warnings |-> warnings,
                                errors |-> errors]]
    /\ ran' = Append(ran, check_name)
    /\ before' = fs
    /\ prev' = call
    /\ UNCHANGED <<fs, pc, runs, migVars, yaml_installed, summary, success, exit_status>>

CheckDirectoryStructure ==
    Iteration("Directory Structure", check_directory_structure(fs, Buckets))
CheckRequiredFiles ==
    Iteration("Required Files", check_required_files(fs, Buckets))
CheckImports ==
    Iteration("Python Imports", check_imports(fs, Buckets))
CheckConfiguration ==
    Iteration("Configuration", check_configuration(fs, yaml_installed, Buckets))
CheckDocumentation ==
    Iteration("Documentation", check_documentation(fs, Buckets))

\* self.print_summary(); return len(self.errors) == 0
ValidateReturn ==
    /\ pc = "validate_all"
    /\ Len(ran) >= Len(checks)
    /\ summary' = [passed |-> Len(passed), warnings |-> Len(warnings),
                   errors |-> Len(errors)]
    /\ success' = ValidateResult(errors, warnings)
    /\ pc' = "returned"
    /\ UNCHANGED <<fs, call, before, prev, runs, migVars, yaml_installed, errors,
                   warnings, passed, ran, raisedIn, emitted, exit_status>>

\* sys.exit(0 if success else 1)
MainExit ==
    /\ pc = "returned"
    /\ exit_status' = ExitCode(success)
    /\ pc' = "exited"
    /\ UNCHANGED <<fs, call, before, prev, runs, migVars, yaml_installed, errors,
                   warnings, passed, ran, raisedIn, emitted, summary, success>>

ValidateNext ==
    \/ MainStart
    \/ CheckDirectoryStructure
    \/ CheckRequiredFiles
    \/ CheckImports
    \/ CheckConfiguration
    \/ CheckDocumentation
    \/ ValidateReturn
    \/ MainExit

---------------------------------------------------------------------------
(* Specifications. *)

\* the validation entry point on a project root
Init == InitValidate
Next == ValidateNext
Spec == Init /\ [][Next]_vars

\* ensure_directories on a root, once or again, and then the validator
NextProvision == EnsureDirectories \/ Provisioned \/ ValidateNext
SpecProvision == InitProvision /\ [][NextProvision]_vars

\* migrate_files on a project
NextMigrate == MigrateEnsure \/ MigrateCopy \/ MigrateHeaders \/ MigrateReport
SpecMigrate == InitMigrate /\ [][NextMigrate]_vars

\* copy_file and add_file_header called on a destination, twice
NextUnit == CallCopyFile \/ CallAddFileHeader
SpecUnit == InitUnit /\ [][NextUnit]_vars


---------------------------------------------------------------------------
(* Properties of migrate_files, stated for SpecMigrate. *)

SourcePresent(k) == IsFile(fs, FILE_MAPPING[k].src)

\* the entries before k that write the destination of k and whose source is there
EarlierWriters(k) ==
    {j \in 1..(k - 1) : FILE_MAPPING[j].dst = FILE_MAPPING[k].dst /\ SourcePresent(j)}

LoopFinished == pc = "headers"

\* C1: when the transfer loop has finished and the sources of the Overwrite entry
\* for src/core/sync_detection.py (determineSyncN.py) and of the next entry
\* commented "# Append" (determineSyncTwo.py) both exist, the destination begins
\* with the first source's content, then the separator block naming the second
\* source, then the second source's content.
C1_AppendAfterOverwrite ==
    (LoopFinished /\ SourcePresent(2) /\ SourcePresent(3)) =>
        StartsWith(fs[FILE_MAPPING[2].dst].content,
                   fs[FILE_MAPPING[2].src].content
                   \o SeparatorBlock(Name(FILE_MAPPING[3].src))
                   \o fs[FILE_MAPPING[3].src].content)

\* entry k left its destination holding its source's content as its mode tells:
\* an Overwrite entry at the start of the destination, an Append entry that
\* found the destination written after its separator block
HoldsOwnContent(k) ==
    LET e == FILE_MAPPING[k]
        text == fs[e.dst].content
    IN  /\ IsFile(fs, e.dst)
        /\ IF k \in AppendCommented /\ EarlierWriters(k) # {}
           THEN Contains(text, SeparatorBlock(Name(e.src)) \o fs[e.src].content)
           ELSE k \notin AppendCommented => StartsWith(text, fs[e.src].content)

\* C4: when exactly one source of the plan is missing, the loop attempts every
\* entry in plan order, ends with fail_count = 1 and success_count = N - 1, and
\* every other entry's destination holds that entry's source content as its
\* mode prescribes.
C4_OneMissingSource ==
    (LoopFinished
     /\ Cardinality({k \in 1..Len(FILE_MAPPING) : ~SourcePresent(k)}) = 1) =>
        /\ attempts = [k \in 1..Len(FILE_MAPPING) |-> k]
        /\ fail_count = 1
        /\ success_count = Len(FILE_MAPPING) - 1
        /\ \A k \in 1..Len(FILE_MAPPING) : SourcePresent(k) => HoldsOwnContent(k)

---------------------------------------------------------------------------
(* Properties of copy_file and add_file_header, stated for SpecUnit. *)

AppendOntoExisting ==
    /\ call.op = "copy_file"
    /\ call.append
    /\ IsFile(before, call.src)
    /\ IsFile(before, call.dst)

\* C5: copy_file(src, dst, append=True) with src and dst both existing leaves in
\* dst its previous content, then the separator block naming src, then the
\* content of src, and returns True.
C5_AppendKeepsPrefix ==
    AppendOntoExisting =>
        /\ ~call.raised
        /\ call.ret
        /\ IsFile(fs, call.dst)
        /\ fs[call.dst].content =
              before[call.dst].content
              \o SeparatorBlock(Name(call.src))
              \o before[call.src].content
        /\ StartsWith(fs[call.dst].content, before[call.dst].content)
        /\ \A p \in DOMAIN fs : p # call.dst => fs[p] = before[p]

C5_Witness ==
    /\ AppendOntoExisting
    /\ before[call.dst].content # <<>>
    /\ before[call.src].content # <<>>
    /\ Len(fs[call.dst].content) > Len(before[call.dst].content)

\* the text, after its leading whitespace, begins with """ or '''
DocMarked(text) ==
    \E k \in 0..Len(text) :
        /\ \A j \in 1..k : text[j] \in {" ", "\n", "\t", "\r"}
        /\ Len(text) >= k + 3
        /\ \/ \A j \in (k + 1)..(k + 3) : text[j] = "\""
           \/ \A j \in (k + 1)..(k + 3) : text[j] = "'"

HeaderCalled == call.op = "add_file_header" /\ IsFile(before, call.file_path)

\* C7: add_file_header on an existing file leaves a file that begins (after
\* leading whitespace) with a triple-quote marker untouched, and prepends the
\* header to any other file, keeping its content after the header; a second
\* call in a row leaves the file as the first call left it.
C7_HeaderIdempotent ==
    HeaderCalled =>
        /\ ~call.raised
        /\ IF DocMarked(before[call.file_path].content)
           THEN fs = before
           ELSE /\ fs[call.file_path] =
                      File(HeaderText(call.description)
                           \o before[call.file_path].content)
                /\ \A p \in DOMAIN fs : p # call.file_path => fs[p] = before[p]
        /\ (prev.op = "add_file_header" /\ prev.file_path = call.file_path) =>
              fs = before

C7_Witness ==
    /\ HeaderCalled
    /\ prev.op = "add_file_header"
    /\ ~prev.raised
    /\ prev.file_path = call.file_path
    /\ fs = before
    /\ StartsWith(fs[call.file_path].content, HeaderText(prev.description))
    /\ Len(fs[call.file_path].content) > Len(HeaderText(prev.description))
    /\ ~StartsWith(SubSeq(fs[call.file_path].content,
                          Len(HeaderText(prev.description)) + 1,
                          Len(fs[call.file_path].content)), <<DQ>>)

---------------------------------------------------------------------------
(* Properties of ensure_directories, stated for SpecProvision. *)

Directories(f) == {p \in DOMAIN f : IsDir(f, p)}

\* C8: a run of ensure_directories that follows a completed run does not raise
\* and leaves the same directories; no run changes a package marker file that
\* was there, and a marker it creates holds the placeholder.
C8_ProvisionIdempotent ==
    call.op = "ensure_directories" =>
        /\ prev.op = "ensure_directories" =>
              /\ ~call.raised
              /\ Directories(fs) = Directories(before)
              /\ fs = before
        /\ \A p \in DOMAIN fs :
              Name(p) = "__init__.py" =>
                 /\ Exists(before, p) => fs[p] = before[p]
                 /\ (~Exists(before, p) /\ Exists(fs, p)) =>
                       fs[p] = File(<<"\"", "\"", "\"", "Package initialization.",
                                      "\"", "\"", "\"", "\n">>)

C8_Witness ==
    /\ call.op = "ensure_directories"
    /\ prev.op = "ensure_directories"
    /\ runs = 2
    /\ fs[<<"src", "models", "__init__.py">>] = File(<<"import torch">>)
    /\ fs[<<"src", "core", "__init__.py">>] = File(PackagePlaceholder)

\* the package marker files check_required_files requires
RequiredMarkers == {p \in Range(required_files) : Name(p) = "__init__.py"}

\* C10: once ensure_directories has run on a root, every directory
\* check_directory_structure requires is a directory and every package marker
\* check_required_files requires is a file, and neither check records an Error
\* for one of them.
C10_ProvisionSatisfiesValidator ==
    (runs > 0 /\ pc # "crashed") =>
        /\ \A d \in Range(required_dirs) : IsDir(fs, d)
        /\ \A p \in RequiredMarkers : IsFile(fs, p)
        /\ \A k \in 1..Len(errors) :
              /\ errors[k].label # "Missing directory"
              /\ ~(errors[k].label = "Missing file" /\ errors[k].about \in RequiredMarkers)

---------------------------------------------------------------------------
(* Properties of the validator, stated for Spec. *)

\* C2: validate_all returns True exactly when the Error bucket is empty once
\* all checks have run, and main exits with status 0 exactly then; Warning and
\* Passed findings play no part.
C2_ExitStatusFromErrors ==
    /\ pc \in {"returned", "exited"} => (success <=> errors = <<>>)
    /\ pc = "exited" => (exit_status = 0 <=> errors = <<>>)
    /\ pc = "exited" => exit_status \in {0, 1}

C2_Witness ==
    /\ pc = "exited"
    /\ exit_status = 0
    /\ warnings # <<>>
    /\ passed # <<>>

FiveChecks == <<"Directory Structure", "Required Files", "Python Imports",
                "Configuration", "Documentation">>

TaggedErrors(name) == {k \in 1..Len(errors) : errors[k].label = name}

\* C3: the five checks run once each in the fixed order whatever the earlier
\* ones found or raised; a check that raises adds one Error finding tagged with
\* its name and keeps the findings it had recorded; the three counts of the
\* summary add up to the number of findings emitted.
C3_EveryCheckOnce ==
    /\ Len(ran) <= Len(FiveChecks)
    /\ ran = SubSeq(FiveChecks, 1, Len(ran))
    /\ pc \in {"returned", "exited"} =>
          /\ ran = FiveChecks
          /\ summary.passed + summary.warnings + summary.errors = emitted
          /\ summary.passed = Len(passed)
          /\ summary.warnings = Len(warnings)
          /\ summary.errors = Len(errors)
    /\ \A k \in 1..Len(FiveChecks) :
          Cardinality(TaggedErrors(FiveChecks[k])) =
             IF \E j \in 1..Len(raisedIn) : raisedIn[j] = FiveChecks[k] THEN 1 ELSE 0
    /\ (call.op \in Range(FiveChecks) /\ call.exc # "none") =>
          /\ passed = call.kept.passed
          /\ warnings = call.kept.warnings
          /\ errors = Append(call.kept.errors, Finding(call.op, <<call.exc>>))
          /\ Len(call.kept.passed) >= Len(call.had.passed)
          /\ Len(call.kept.warnings) >= Len(call.had.warnings)

C3_Witness ==
    /\ pc = "exited"
    /\ raisedIn = <<"Configuration", "Documentation">>
    /\ call.op = "Documentation"
    /\ Len(call.kept.passed) > Len(call.had.passed)
    /\ ran = FiveChecks

\* the packages the import lookups import
Packages == UNION {Ancestors(t.module) : t \in Range(import_tests)}

\* the root has every required directory but d, every required file that is not
\* below d, packages that load, readable documentation and PyYAML
ConformingBut(d) ==
    /\ ~Exists(fs, d)
    /\ \A e \in Range(required_dirs) : e # d => IsDir(fs, e)
    /\ \A p \in Range(required_files) : ~Below(d, p) => IsFile(fs, p)
    /\ \A q \in Packages : ~Below(d, InitFile(q)) => PackageLoads(fs, q)
    /\ \A p \in Range(doc_files) : ~IsDir(fs, p)
    /\ yaml_installed

InvalidConfig ==
    /\ IsFile(fs, ConfigPath)
    /\ SafeLoad(fs[ConfigPath].content).type = "YAMLError"

TwoErrors(d) ==
    /\ Len(errors) = 2
    /\ errors[1] = Finding("Missing directory", d)
    /\ errors[2].label = "Invalid YAML"
    /\ exit_status # 0

\* C6: a run on a root that lacks exactly one required directory, whichever,
\* is otherwise conforming and has a syntactically invalid configuration ends
\* with exactly two Errors, one for the directory and one for the
\* configuration, and a nonzero exit status.
C6_AnyMissingDirectory ==
    \A d \in Range(required_dirs) :
        (pc = "exited" /\ ConformingBut(d) /\ InvalidConfig) => TwoErrors(d)

\* C6, amended: the same for the two required directories that hold no
\* required file and no looked-up module, scripts and tests.
C6_MissingLeafDirectory ==
    \A d \in {<<"scripts">>, <<"tests">>} :
        (pc = "exited" /\ ConformingBut(d) /\ InvalidConfig) => TwoErrors(d)

C6_Witness ==
    /\ pc = "exited"
    /\ ConformingBut(<<"tests">>)
    /\ InvalidConfig
    /\ TwoErrors(<<"tests">>)

ConfigurationRan == call.op = "Configuration"

Added(bucket, had) == SubSeq(bucket, Len(had) + 1, Len(bucket))

SectionFindings(findings, section) ==
    {k \in 1..Len(findings) : findings[k].about = <<section>>}

\* C9: when the configuration file exists and parses, whatever the document,
\* check_configuration adds one finding per required section, Passed if the
\* section is a top-level key and Warning if not, and no Error; when the file
\* is absent it adds one Error and no per-section finding.
C9_OneFindingPerSection ==
    ConfigurationRan =>
        LET newPassed == Added(passed, call.had.passed)
            newWarnings == Added(warnings, call.had.warnings)
            newErrors == Added(errors, call.had.errors)
            config == SafeLoad(fs[ConfigPath].content)
        IN  IF ~Exists(fs, ConfigPath)
            THEN Len(newErrors) = 1 /\ newPassed = <<>> /\ newWarnings = <<>>
            ELSE (IsFile(fs, ConfigPath) /\ yaml_installed /\ config.type # "YAMLError") =>
                    /\ newErrors = <<>>
                    /\ Len(newPassed) + Len(newWarnings) = Len(required_sections)
                    /\ \A k \in 1..Len(required_sections) :
                          LET section == required_sections[k]
                          IN  IF config.type = "dict" /\ section \in config.items
                              THEN /\ Cardinality(SectionFindings(newPassed, section)) = 1
                                   /\ SectionFindings(newWarnings, section) = {}
                              ELSE /\ Cardinality(SectionFindings(newWarnings, section)) = 1
                                   /\ SectionFindings(newPassed, section) = {}
====
